---- MODULE Spec2Model ----
(***************************************************************************)
(* The PublicBulletin ink! contract of the Polkadot ledger connector:      *)
(* committee members publish (view, rolling hash) commitments per height;  *)
(* a view that no peer has published yet needs a quorum of replies.        *)
(*                                                                         *)
(* Strings are modelled as sequences of bytes (their UTF-8 encoding), so   *)
(* that concatenation, hashing and hexadecimal formatting are computed as  *)
(* the contract computes them.                                             *)
(***************************************************************************)
EXTENDS Integers, Sequences, FiniteSets, TLC

(***************************************************************************)
(* Strings used by the contract and by its tests.                          *)
(***************************************************************************)
\* "None"
StrNone == <<78, 111, 110, 101>>
\* "NOK"
StrNOK == <<78, 79, 75>>
\* "OK"
StrOK == <<79, 75>>
\* "Ok"
StrOk == <<79, 107>>
\* "nok"
Strnok == <<110, 111, 107>>
\* ""
StrEmpty == <<>>
\* "View1"
View1 == <<86, 105, 101, 119, 49>>
\* "View2"
View2 == <<86, 105, 101, 119, 50>>

(***************************************************************************)
(* std::collections::hash_map::DefaultHasher: SipHash-1-3 with a zero key. *)
(* A 64-bit word is a sequence of four 16-bit limbs, least significant     *)
(* first.  Intermediate results are bound by x \in {e}, so that each is    *)
(* computed once.                                                          *)
(***************************************************************************)
Limb == 65536

RECURSIVE Pow2(_)
Pow2(n) == IF n = 0 THEN 1 ELSE 2 * Pow2(n - 1)

\* bit i of a
Bit(a, i) == (a \div Pow2(i)) % 2

RECURSIVE XorBits(_, _, _)
XorBits(a, b, i) ==
    IF i < 0 THEN 0
    ELSE ((Bit(a, i) + Bit(b, i)) % 2) * Pow2(i) + XorBits(a, b, i - 1)

Xor64(a, b) ==
    <<XorBits(a[1], b[1], 15), XorBits(a[2], b[2], 15),
      XorBits(a[3], b[3], 15), XorBits(a[4], b[4], 15)>>

\* wrapping_add on u64
Add64(a, b) ==
    LET s1 == a[1] + b[1]
        s2 == a[2] + b[2] + (s1 \div Limb)
        s3 == a[3] + b[3] + (s2 \div Limb)
        s4 == a[4] + b[4] + (s3 \div Limb)
    IN  <<s1 % Limb, s2 % Limb, s3 % Limb, s4 % Limb>>

\* rotate_left on u64, 0 <= k < 64
Rotl64(a, k) ==
    LET q == k \div 16
        r == k % 16
        x(i) == a[((i - 1 - q + 4) % 4) + 1]
        lo == Pow2(r)
        hi == Pow2(16 - r)
        limb(i) == ((x(i) * lo) % Limb) + (x(((i + 2) % 4) + 1) \div hi)
    IN  <<limb(1), limb(2), limb(3), limb(4)>>

\* one SipRound over the state <<v0, v1, v2, v3>>, in four steps:
\* v0 += v1; v1 <<<= 13; v2 += v3; v3 <<<= 16
SipStep1(s) ==
    <<Add64(s[1], s[2]), Rotl64(s[2], 13), Add64(s[3], s[4]), Rotl64(s[4], 16)>>
\* v1 ^= v0; v0 <<<= 32; v3 ^= v2
SipStep2(s) ==
    <<Rotl64(s[1], 32), Xor64(s[2], s[1]), s[3], Xor64(s[4], s[3])>>
\* v0 += v3; v3 <<<= 21; v2 += v1; v1 <<<= 17
SipStep3(s) ==
    <<Add64(s[1], s[4]), Rotl64(s[2], 17), Add64(s[3], s[2]), Rotl64(s[4], 21)>>
\* v3 ^= v0; v1 ^= v2; v2 <<<= 32
SipStep4(s) ==
    <<s[1], Xor64(s[2], s[3]), Rotl64(s[3], 32), Xor64(s[4], s[1])>>

SipRound(v) ==
    CHOOSE r \in {SipStep4(d) : d \in {SipStep3(c) : c \in
                 {SipStep2(b) : b \in {SipStep1(a) : a \in {v}}}}} : TRUE

\* the little-endian u64 made of the bytes of s from position p on (at most 8),
\* with byte `top` in the most significant position when fewer than 8 remain
LeWord(s, p, top) ==
    LET byte(i) == IF p + i <= Len(s) THEN s[p + i]
                   ELSE IF i = 7 THEN top ELSE 0
        limb(i) == byte(2 * i - 2) + 256 * byte(2 * i - 1)
    IN  <<limb(1), limb(2), limb(3), limb(4)>>

\* c_rounds = 1: v3 ^= m; SipRound; v0 ^= m
Compress(v, m) ==
    CHOOSE r \in {<<Xor64(w[1], m), w[2], w[3], w[4]>> :
                     w \in {SipRound(<<v[1], v[2], v[3], Xor64(v[4], m)>>)}} : TRUE

\* the state after the bytes of s from position p on: whole 8-byte words, then
\* the last word, which carries the length
RECURSIVE SipBlocks(_, _, _)
SipBlocks(v, s, p) ==
    IF p + 7 <= Len(s)
    THEN CHOOSE r \in {SipBlocks(w, s, p + 8) :
                          w \in {Compress(v, m) : m \in {LeWord(s, p, 0)}}} : TRUE
    ELSE CHOOSE r \in {Compress(v, m) : m \in {LeWord(s, p, Len(s) % 256)}} : TRUE

\* v0 ^ v1 ^ v2 ^ v3
XorAll(f) ==
    CHOOSE r \in {Xor64(x[1], x[2]) :
                     x \in {<<Xor64(f[1], f[2]), Xor64(f[3], f[4])>>}} : TRUE

\* DefaultHasher::new(), write(bytes), finish(): v2 ^= 0xff and d_rounds = 3
DefaultHasherFinish(bytes) ==
    LET init == << <<25973, 28787, 28005, 29551>>,    \* 0x736f6d6570736575
                   <<28525, 28260, 29281, 25711>>,    \* 0x646f72616e646f6d
                   <<29281, 28261, 26469, 27769>>,    \* 0x6c7967656e657261
                   <<25971, 31092, 25698, 29797>> >>  \* 0x7465646279746573
    IN  CHOOSE r \in
            {XorAll(f) : f \in
                {SipRound(SipRound(SipRound(
                     <<v[1], v[2], Xor64(v[3], <<255, 0, 0, 0>>), v[4]>>))) :
                    v \in {SipBlocks(init, b, 1) : b \in {bytes}}}} : TRUE

\* format!("{:x}", u64): lowercase hexadecimal, no leading zeros
HexDigit(d) == IF d < 10 THEN 48 + d ELSE 87 + d

\* the hexadecimal digits of w from digit k (1 = most significant) on,
\* `started` telling whether a nonzero digit has been written already
RECURSIVE HexFrom(_, _, _)
HexFrom(w, k, started) ==
    LET d == (w[4 - ((k - 1) \div 4)] \div Pow2(4 * (3 - ((k - 1) % 4)))) % 16
    IN  IF k = 16 THEN <<HexDigit(d)>>
        ELSE IF d = 0 /\ ~started THEN HexFrom(w, k + 1, FALSE)
        ELSE <<HexDigit(d)>> \o HexFrom(w, k + 1, TRUE)

FormatLowerHex(w) == CHOOSE r \in {HexFrom(x, 1, FALSE) : x \in {w}} : TRUE

\* format!("{:x}", hasher_res.finish()) after
\* hasher_res.write(format!("{}{}", previous_view, previous_rolling_hash))
HashHex(previous_view, previous_rolling_hash) ==
    FormatLowerHex(DefaultHasherFinish(previous_view \o previous_rolling_hash))

(***************************************************************************)
(* Bounds of the model.                                                    *)
(***************************************************************************)
\* heights passed to the messages are 1..MaxHeight
MaxHeight == 2
\* evaluate_view is explored while the contract stores fewer replies than this
MaxReplies == 2
\* increment_cur_height is explored while the clock is below this
MaxClock == 1
\* set_timeout is called with 0..MaxTimeout
MaxTimeout == 1
\* the largest committee the constructor's state is extended to
MaxMembers == 5

\* InkAccountId::default(), the account allowed to administer the contract
DefaultAccount == 0
\* accounts are [b; 32], written b
Accounts == {0, 1, 2}
Heights == 1..MaxHeight
Views == {View1, View2}
Verdicts == {StrOK, StrNOK}
\* verdicts as free-form strings
FreeVerdicts == {StrOK, StrNOK, StrOk, Strnok, StrEmpty}
Timeouts == 0..MaxTimeout

\* the rolling hashes of the chains View1, View1, ... of at most n commitments
RECURSIVE ChainHashes(_)
ChainHashes(n) ==
    IF n = 0 THEN <<StrNone>>
    ELSE LET prev == ChainHashes(n - 1)
         IN  prev \o <<HashHex(View1, prev[Len(prev)])>>

\* the rolling hashes passed to publish_view: "None" and the hashes of the
\* chains of View1 below MaxHeight
RollingHashes == {ChainHashes(MaxHeight - 1)[i] : i \in 1..MaxHeight}

\* HashHex of every commitment the explored calls can store, computed once
HashTable ==
    {<<v, r, HashHex(v, r)>> : v \in Views, r \in RollingHashes}

HashOfCommitment(previous_view, previous_rolling_hash) ==
    IF \E e \in HashTable : e[1] = previous_view /\ e[2] = previous_rolling_hash
    THEN (CHOOSE e \in HashTable :
              e[1] = previous_view /\ e[2] = previous_rolling_hash)[3]
    ELSE HashHex(previous_view, previous_rolling_hash)

(***************************************************************************)
(* Storage of the contract (struct PublicBulletin) and a record of the     *)
(* last call.  A message runs from its entry to its return as one step: a  *)
(* contract call is a single transaction, and nothing runs between two     *)
(* evaluations of the loop of approve_view.                                *)
(* `owner` is a field of the main revision only; in the fixture revision   *)
(* it stays at the account that constructs the contract and is not read.   *)
(* `committed` is a history of the commitments stored so far.              *)
(***************************************************************************)
VARIABLES commitments_per_member, replies_per_member, whitelist,
          current_height, timeout, last, committed, owner

storage == <<commitments_per_member, replies_per_member, whitelist,
             current_height, timeout>>
vars == <<commitments_per_member, replies_per_member, whitelist,
          current_height, timeout, last, committed, owner>>

\* HashMap::new()
EmptyMap == <<>>
\* HashMap::insert
MapInsert(map, key, value) ==
    [k \in DOMAIN map \cup {key} |-> IF k = key THEN value ELSE map[k]]
\* HashMap::take
MapTake(map, key) == [k \in DOMAIN map \ {key} |-> map[k]]
\* Vec::swap_remove_drop: the last element takes the place of the removed one
SwapRemoveDrop(vec, index) ==
    LET n == Len(vec)
    IN  [i \in 1..(n - 1) |-> IF i = index THEN vec[n] ELSE vec[i]]

ViewPublished(height, member, view) ==
    [event |-> "ViewPublished", height |-> height, member |-> member,
     view |-> view]
ViewConflict(height, member, view, rolling_hash) ==
    [event |-> "ViewConflict", height |-> height, member |-> member,
     view |-> view, rolling_hash |-> rolling_hash]
ViewApprovalRequest(height, member, view) ==
    [event |-> "ViewApprovalRequest", height |-> height, member |-> member,
     view |-> view]

\* what `last` records of a step: the message called, its caller, how the
\* call ended and the events it has emitted
Call(op, caller, outcome, events) ==
    [op |-> op, caller |-> caller, outcome |-> outcome, events |-> events]

(***************************************************************************)
(* Auxiliary functions of the contract.                                    *)
(***************************************************************************)
check_contains(vec, element) == \E i \in 1..Len(vec) : vec[i] = element

\* the index of the first element equal to member (Iterator::position)
position(vec, member) ==
    CHOOSE i \in 1..Len(vec) :
        vec[i] = member /\ \A j \in 1..(i - 1) : vec[j] # member

\* the commitments of all members at a height: the entries of the storage
\* map are visited, here by ascending account; publish_view only tests
\* whether some entry has the view, so the order is not observable
RECURSIVE get_all_commitments_from(_, _, _)
get_all_commitments_from(commitments, height, keys) ==
    IF keys = {} THEN <<>>
    ELSE LET m == CHOOSE k \in keys : \A other \in keys : k <= other
             rest == get_all_commitments_from(commitments, height, keys \ {m})
         IN  IF height \in DOMAIN commitments[m]
             THEN <<commitments[m][height]>> \o rest
             ELSE rest

get_all_commitments(commitments, height) ==
    get_all_commitments_from(commitments, height, DOMAIN commitments)

get_all_replies(replies, caller, height) ==
    IF height \in DOMAIN replies[caller] THEN replies[caller][height] ELSE <<>>

\* the number of replies the contract stores
RECURSIVE CountReplies(_, _)
CountReplies(replies, coords) ==
    IF coords = {} THEN 0
    ELSE LET c == CHOOSE x \in coords : TRUE
         IN  Len(replies[c[1]][c[2]]) + CountReplies(replies, coords \ {c})

TotalReplies(replies) ==
    CountReplies(replies, {<<m, h>> \in (DOMAIN replies) \X Heights :
                               h \in DOMAIN replies[m]})

\* calculate_quorum without the increment for committees of more than two
calculate_quorum_halved == Len(whitelist) \div 2

\* calculate_quorum with a plain majority for every committee size
calculate_quorum_majority == Len(whitelist) \div 2 + 1

calculate_quorum ==
    LET res == Len(whitelist) \div 2
    IN  IF Len(whitelist) <= 2 THEN res ELSE res + 1

\* height - 1 on i32 (line 268) falls below i32::MIN
i32_borrow(height) == height = -2147483647 - 1

\* height - 1 on i32, modulo 2^32
i32_wrapping_pred(height) ==
    IF i32_borrow(height) THEN 2147483647 ELSE height - 1

\* the builds of the contract that give different results for height - 1
\* (line 268): at i32::MIN the subtraction traps in a build with overflow
\* checks and wraps around to i32::MAX in a build without
HeightOverflowChecks(height) ==
    IF i32_borrow(height) THEN BOOLEAN ELSE {TRUE}

\* calculate_rolling_hash that never looks at the previous height
calculate_rolling_hash_unchained(commitments, caller, height) == StrNone

\* the rolling hash of (caller, height) when height - 1 does not trap
calculate_rolling_hash(commitments, caller, height) ==
    LET previous_height == i32_wrapping_pred(height)
    IN  IF previous_height \in DOMAIN commitments[caller]
        THEN LET previous_commitment == commitments[caller][previous_height]
             IN  HashOfCommitment(previous_commitment[1], previous_commitment[2])
        ELSE StrNone

\* report_conflict without the membership test
report_conflict_ungated(caller, height, view, rolling_hash) ==
    <<ViewConflict(height, caller, view, rolling_hash)>>

\* report_conflict without the event
report_conflict_silent(caller, height, view, rolling_hash) == <<>>

\* the events report_conflict emits
report_conflict(caller, height, view, rolling_hash) ==
    IF check_contains(whitelist, caller)
    THEN <<ViewConflict(height, caller, view, rolling_hash)>>
    ELSE <<>>

\* add_and_publish_view without the insertion
add_and_publish_view_dropped(commitments, caller, height, view, rolling_hash) ==
    commitments

\* the commitment map after add_and_publish_view
add_and_publish_view(commitments, caller, height, view, rolling_hash) ==
    [commitments EXCEPT ![caller] = MapInsert(@, height, <<view, rolling_hash>>)]


(***************************************************************************)
(* current_height and timeout are u32.  The integers of TLC are 32 bits    *)
(* wide and signed, so a u32 value v is written v when v < 2^31 and        *)
(* v - 2^32 otherwise: u32::MAX is written -1.                             *)
(***************************************************************************)
U32Max == -1

\* a >= b on u32
u32_ge(a, b) == IF (a >= 0) = (b >= 0) THEN a >= b ELSE a < 0

\* a + b on u32 exceeds u32::MAX
u32_carry(a, b) ==
    IF a >= 0 /\ b >= 0 THEN FALSE
    ELSE IF a < 0 /\ b < 0 THEN TRUE
    ELSE a + b >= 0

\* a + b on u32, modulo 2^32
u32_wrapping_add(a, b) ==
    IF a >= 0 /\ b >= 0
    THEN IF a > 2147483647 - b
         THEN (a - 2147483647 - 1) + (b - 2147483647 - 1)
         ELSE a + b
    ELSE IF a < 0 /\ b < 0
    THEN IF a < (-2147483647 - 1) - b
         THEN (a + 2147483647 + 1) + (b + 2147483647 + 1)
         ELSE a + b
    ELSE a + b

\* the builds of the contract that give different results for
\* initial_height + timeout (line 168): with overflow checks the addition
\* traps when it exceeds u32::MAX, without them it wraps around; the builds
\* agree when it does not exceed u32::MAX
OverflowChecks(initial_height) ==
    IF u32_carry(initial_height, timeout) THEN BOOLEAN ELSE {TRUE}

\* the builds of the contract that give different results for
\* current_height += 1 (line 86): they differ when the clock is u32::MAX
ClockOverflowChecks ==
    IF u32_carry(current_height, 1) THEN BOOLEAN ELSE {TRUE}

\* initialise_replies that starts every round with an empty vector
initialise_replies_afresh(caller, height) ==
    [replies_per_member EXCEPT ![caller] = MapInsert(MapTake(@, height), height, <<>>)]

\* the reply map once approve_view has initialised the vector of
\* (caller, height) (lines 149-154)
initialise_replies(caller, height) ==
    IF height \in DOMAIN replies_per_member[caller]
    THEN replies_per_member
    ELSE [replies_per_member EXCEPT ![caller] = MapInsert(@, height, <<>>)]

\* how approve_view ends when the loop is entered with a number of replies
\* that differs from the quorum (lines 166-172).  Nothing the loop reads can
\* change while the call runs: either the deadline test holds in the first
\* iteration, or the call never returns (on a chain it runs out of gas and
\* is reverted: the storage stays as it was before the call and no event is
\* emitted).  A reverted call is also how a trap ends.
\* wait_for_quorum that approves when the deadline is reached
wait_for_quorum_approving(initialised, caller, height, request, overflow_checks) ==
    [result |-> "Approved", replies |-> initialised, events |-> request]
\* wait_for_quorum that on a timeout takes the whole reply map of the caller
wait_for_quorum_forgetting(initialised, caller, height, request, overflow_checks) ==
    LET initial_height == current_height
    IN  IF overflow_checks /\ u32_carry(initial_height, timeout)
        THEN [result |-> "Trapped", replies |-> replies_per_member,
              events |-> <<>>]
        ELSE IF u32_ge(current_height, u32_wrapping_add(initial_height, timeout))
        THEN [result |-> "TimedOut", replies |-> MapTake(initialised, caller),
              events |-> request]
        ELSE [result |-> "NeverReturns", replies |-> replies_per_member,
              events |-> <<>>]
\* wait_for_quorum without the deadline test
wait_for_quorum_patient(initialised, caller, height, request, overflow_checks) ==
    [result |-> "NeverReturns", replies |-> replies_per_member, events |-> <<>>]
\* wait_for_quorum that leaves the reply vector in place on a timeout
wait_for_quorum_keeping(initialised, caller, height, request, overflow_checks) ==
    LET initial_height == current_height
    IN  IF overflow_checks /\ u32_carry(initial_height, timeout)
        THEN [result |-> "Trapped", replies |-> replies_per_member,
              events |-> <<>>]
        ELSE IF u32_ge(current_height, u32_wrapping_add(initial_height, timeout))
        THEN [result |-> "TimedOut", replies |-> initialised, events |-> request]
        ELSE [result |-> "NeverReturns", replies |-> replies_per_member,
              events |-> <<>>]
wait_for_quorum(initialised, caller, height, request, overflow_checks) ==
    LET initial_height == current_height
    IN  IF overflow_checks /\ u32_carry(initial_height, timeout)
        THEN [result |-> "Trapped", replies |-> replies_per_member,
              events |-> <<>>]
        ELSE IF u32_ge(current_height, u32_wrapping_add(initial_height, timeout))
        THEN [result |-> "TimedOut",
              replies |-> [initialised EXCEPT ![caller] = MapTake(@, height)],
              events |-> request]
        ELSE [result |-> "NeverReturns", replies |-> replies_per_member,
              events |-> <<>>]

(***************************************************************************)
(* approve_view (lines 147-182): the result, the reply map and the events  *)
(* emitted when it ends.                                                   *)
(***************************************************************************)
\* approve_view that takes "nok" for "NOK"
approve_view_caseless(caller, height, view, rolling_hash, overflow_checks) ==
    IF caller \notin DOMAIN replies_per_member
    THEN [result |-> "Trapped", replies |-> replies_per_member, events |-> <<>>]
    ELSE LET initialised == initialise_replies(caller, height)
             request == <<ViewApprovalRequest(height, caller, view)>>
             all == get_all_replies(initialised, caller, height)
         IN  IF Len(all) = calculate_quorum
             THEN IF check_contains(all, StrNOK) \/ check_contains(all, Strnok)
                  THEN [result |-> "Rejected", replies |-> initialised,
                        events |-> request \o
                            report_conflict(caller, height, view, rolling_hash)]
                  ELSE [result |-> "Approved", replies |-> initialised,
                        events |-> request]
             ELSE wait_for_quorum(initialised, caller, height, request,
                                  overflow_checks)
\* approve_view without the event that asks for the replies
approve_view_unannounced(caller, height, view, rolling_hash, overflow_checks) ==
    IF caller \notin DOMAIN replies_per_member
    THEN [result |-> "Trapped", replies |-> replies_per_member, events |-> <<>>]
    ELSE LET initialised == initialise_replies(caller, height)
             request == <<>>
             all == get_all_replies(initialised, caller, height)
         IN  IF Len(all) = calculate_quorum
             THEN IF check_contains(all, StrNOK)
                  THEN [result |-> "Rejected", replies |-> initialised,
                        events |-> request \o
                            report_conflict(caller, height, view, rolling_hash)]
                  ELSE [result |-> "Approved", replies |-> initialised,
                        events |-> request]
             ELSE wait_for_quorum(initialised, caller, height, request,
                                  overflow_checks)
\* approve_view that approves whatever the replies are
approve_view_lenient(caller, height, view, rolling_hash, overflow_checks) ==
    IF caller \notin DOMAIN replies_per_member
    THEN [result |-> "Trapped", replies |-> replies_per_member, events |-> <<>>]
    ELSE LET initialised == initialise_replies(caller, height)
             request == <<ViewApprovalRequest(height, caller, view)>>
             all == get_all_replies(initialised, caller, height)
         IN  IF Len(all) = calculate_quorum
             THEN [result |-> "Approved", replies |-> initialised,
                   events |-> request]
             ELSE wait_for_quorum(initialised, caller, height, request,
                                  overflow_checks)
approve_view(caller, height, view, rolling_hash, overflow_checks) ==
    IF caller \notin DOMAIN replies_per_member
    THEN [result |-> "Trapped", replies |-> replies_per_member, events |-> <<>>]
    ELSE LET initialised == initialise_replies(caller, height)
             request == <<ViewApprovalRequest(height, caller, view)>>
             all == get_all_replies(initialised, caller, height)
         IN  IF Len(all) = calculate_quorum
             THEN IF check_contains(all, StrNOK)
                  THEN [result |-> "Rejected", replies |-> initialised,
                        events |-> request \o
                            report_conflict(caller, height, view, rolling_hash)]
                  ELSE [result |-> "Approved", replies |-> initialised,
                        events |-> request]
             ELSE wait_for_quorum(initialised, caller, height, request,
                                  overflow_checks)

\* the end of publish_view for a view that no commitment at the height has
\* (lines 138-141)
\* the end of publish_view without the test of the rolling hash
PublishNewView_unverified(caller, height, view, rolling_hash) ==
    \E overflow_checks \in OverflowChecks(current_height) :
        LET r == approve_view(caller, height, view, rolling_hash,
                              overflow_checks)
            approved == r.result = "Approved"
        IN  /\ replies_per_member' = r.replies
            /\ commitments_per_member' =
                  IF approved
                  THEN add_and_publish_view(commitments_per_member, caller,
                                            height, view, rolling_hash)
                  ELSE commitments_per_member
            /\ last' = Call("publish_view", caller,
                            IF approved THEN "Published" ELSE r.result,
                            r.events \o
                            (IF approved
                             THEN <<ViewPublished(height, caller, view)>>
                             ELSE <<>>))
            /\ UNCHANGED <<whitelist, current_height, timeout>>
\* an approved view is stored when calculate_rolling_hash gives the rolling
\* hash of the call; a trap in height - 1 reverts the call
PublishNewView(caller, height, view, rolling_hash) ==
    \E overflow_checks \in OverflowChecks(current_height) \cup HeightOverflowChecks(height) :
        LET r == approve_view(caller, height, view, rolling_hash,
                              overflow_checks)
            approved == r.result = "Approved"
            trapped == approved /\ overflow_checks /\ i32_borrow(height)
            hash_ok == approved /\ ~trapped /\
                       calculate_rolling_hash(commitments_per_member, caller,
                                              height) = rolling_hash
        IN  /\ replies_per_member' =
                  IF trapped THEN replies_per_member ELSE r.replies
            /\ commitments_per_member' =
                  IF hash_ok
                  THEN add_and_publish_view(commitments_per_member, caller,
                                            height, view, rolling_hash)
                  ELSE commitments_per_member
            /\ last' = Call("publish_view", caller,
                            IF trapped THEN "Trapped"
                            ELSE IF hash_ok THEN "Published"
                            ELSE IF approved THEN "ApprovedHashInvalid"
                            ELSE r.result,
                            IF trapped THEN <<>>
                            ELSE r.events \o
                                 (IF hash_ok
                                  THEN <<ViewPublished(height, caller, view)>>
                                  ELSE <<>>))
            /\ UNCHANGED <<whitelist, current_height, timeout>>

(***************************************************************************)
(* The messages.                                                           *)
(***************************************************************************)
Init ==
    /\ commitments_per_member = EmptyMap
    /\ replies_per_member = EmptyMap
    /\ whitelist = <<>>
    /\ current_height = 0
    /\ timeout = 0
    /\ last = Call("default", DefaultAccount, "Constructed", <<>>)
    /\ committed = {}
    /\ owner = DefaultAccount

SetTimeout(caller, t) ==
    /\ timeout' = IF caller = DefaultAccount THEN t ELSE timeout
    /\ last' = Call("set_timeout", caller,
                    IF caller = DefaultAccount THEN "Done" ELSE "Unauthorized", <<>>)
    /\ UNCHANGED <<commitments_per_member, replies_per_member, whitelist,
                   current_height>>

\* increment_cur_height without the test of the caller
IncrementCurHeight_ungated(caller) ==
    \E overflow_checks \in ClockOverflowChecks :
        LET allowed == TRUE
            trapped == allowed /\ overflow_checks /\ u32_carry(current_height, 1)
        IN  /\ current_height' = IF allowed /\ ~trapped
                                 THEN u32_wrapping_add(current_height, 1)
                                 ELSE current_height
            /\ last' = Call("increment_cur_height", caller,
                            IF caller # DefaultAccount THEN "Unauthorized"
                            ELSE IF trapped THEN "Trapped" ELSE "Done", <<>>)
            /\ UNCHANGED <<commitments_per_member, replies_per_member,
                           whitelist, timeout>>
\* increment_cur_height (lines 84-88): current_height += 1 on u32 for the
\* default account.  At u32::MAX the addition traps in a build with overflow
\* checks (the call is reverted) and wraps around to 0 in a build without
IncrementCurHeight(caller) ==
    \E overflow_checks \in ClockOverflowChecks :
        LET allowed == caller = DefaultAccount
            trapped == allowed /\ overflow_checks /\ u32_carry(current_height, 1)
        IN  /\ current_height' = IF allowed /\ ~trapped
                                 THEN u32_wrapping_add(current_height, 1)
                                 ELSE current_height
            /\ last' = Call("increment_cur_height", caller,
                            IF ~allowed THEN "Unauthorized"
                            ELSE IF trapped THEN "Trapped" ELSE "Done", <<>>)
            /\ UNCHANGED <<commitments_per_member, replies_per_member,
                           whitelist, timeout>>

\* add_member without the test for an entry of the member
AddMember_unchecked(caller, member) ==
    LET allowed == caller = DefaultAccount
        fresh == TRUE
    IN  /\ IF allowed /\ fresh
           THEN /\ whitelist' = Append(whitelist, member)
                /\ commitments_per_member' =
                       MapInsert(commitments_per_member, member, EmptyMap)
                /\ replies_per_member' =
                       MapInsert(replies_per_member, member, EmptyMap)
           ELSE UNCHANGED <<whitelist, commitments_per_member, replies_per_member>>
        /\ last' = Call("add_member", caller,
                        IF ~allowed THEN "Unauthorized"
                        ELSE IF fresh THEN "Done" ELSE "AlreadyMember", <<>>)
        /\ UNCHANGED <<current_height, timeout>>
AddMember(caller, member) ==
    LET allowed == caller = DefaultAccount
        fresh == ~check_contains(whitelist, member)
    IN  /\ IF allowed /\ fresh
           THEN /\ whitelist' = Append(whitelist, member)
                /\ commitments_per_member' =
                       MapInsert(commitments_per_member, member, EmptyMap)
                /\ replies_per_member' =
                       MapInsert(replies_per_member, member, EmptyMap)
           ELSE UNCHANGED <<whitelist, commitments_per_member, replies_per_member>>
        /\ last' = Call("add_member", caller,
                        IF ~allowed THEN "Unauthorized"
                        ELSE IF fresh THEN "Done" ELSE "AlreadyMember", <<>>)
        /\ UNCHANGED <<current_height, timeout>>

\* remove_member that also lets a member remove itself
RemoveMember_selfservice(caller, member) ==
    LET allowed == caller = DefaultAccount \/ caller = member
        present == check_contains(whitelist, member)
    IN  /\ IF allowed /\ present
           THEN /\ whitelist' = SwapRemoveDrop(whitelist, position(whitelist, member))
                /\ commitments_per_member' = MapTake(commitments_per_member, member)
                /\ replies_per_member' = MapTake(replies_per_member, member)
           ELSE UNCHANGED <<whitelist, commitments_per_member, replies_per_member>>
        /\ last' = Call("remove_member", caller,
                        IF ~allowed THEN "Unauthorized"
                        ELSE IF present THEN "Done" ELSE "NotMember", <<>>)
        /\ UNCHANGED <<current_height, timeout>>

\* remove_member that leaves the reply collections of the member behind
RemoveMember_keeping_replies(caller, member) ==
    LET allowed == caller = DefaultAccount
        present == check_contains(whitelist, member)
    IN  /\ IF allowed /\ present
           THEN /\ whitelist' = SwapRemoveDrop(whitelist, position(whitelist, member))
                /\ commitments_per_member' = MapTake(commitments_per_member, member)
                /\ UNCHANGED replies_per_member
           ELSE UNCHANGED <<whitelist, commitments_per_member, replies_per_member>>
        /\ last' = Call("remove_member", caller,
                        IF ~allowed THEN "Unauthorized"
                        ELSE IF present THEN "Done" ELSE "NotMember", <<>>)
        /\ UNCHANGED <<current_height, timeout>>

\* remove_member that leaves the commitments of the member behind
RemoveMember_keeping_commitments(caller, member) ==
    LET allowed == caller = DefaultAccount
        present == check_contains(whitelist, member)
    IN  /\ IF allowed /\ present
           THEN /\ whitelist' = SwapRemoveDrop(whitelist, position(whitelist, member))
                /\ UNCHANGED commitments_per_member
                /\ replies_per_member' = MapTake(replies_per_member, member)
           ELSE UNCHANGED <<whitelist, commitments_per_member, replies_per_member>>
        /\ last' = Call("remove_member", caller,
                        IF ~allowed THEN "Unauthorized"
                        ELSE IF present THEN "Done" ELSE "NotMember", <<>>)
        /\ UNCHANGED <<current_height, timeout>>
RemoveMember(caller, member) ==
    LET allowed == caller = DefaultAccount
        present == check_contains(whitelist, member)
    IN  /\ IF allowed /\ present
           THEN /\ whitelist' = SwapRemoveDrop(whitelist, position(whitelist, member))
                /\ commitments_per_member' = MapTake(commitments_per_member, member)
                /\ replies_per_member' = MapTake(replies_per_member, member)
           ELSE UNCHANGED <<whitelist, commitments_per_member, replies_per_member>>
        /\ last' = Call("remove_member", caller,
                        IF ~allowed THEN "Unauthorized"
                        ELSE IF present THEN "Done" ELSE "NotMember", <<>>)
        /\ UNCHANGED <<current_height, timeout>>

\* publish_view without the test for a commitment at (caller, height)
PublishView_unguarded(caller, height, view, rolling_hash) ==
    LET commitments == get_all_commitments(commitments_per_member, height)
    IN  IF ~check_contains(whitelist, caller)
        THEN /\ last' = Call("publish_view", caller, "Unauthorized", <<>>)
             /\ UNCHANGED storage
        ELSE IF \E i \in 1..Len(commitments) : view = commitments[i][1]
        THEN \E overflow_checks \in HeightOverflowChecks(height) :
             IF overflow_checks /\ i32_borrow(height)
             THEN /\ last' = Call("publish_view", caller, "Trapped", <<>>)
                  /\ UNCHANGED storage
             ELSE IF calculate_rolling_hash(commitments_per_member, caller, height)
                    = rolling_hash
             THEN /\ commitments_per_member' =
                        add_and_publish_view(commitments_per_member, caller,
                                             height, view, rolling_hash)
                  /\ last' = Call("publish_view", caller, "PublishedFastPath",
                                  <<ViewPublished(height, caller, view)>>)
                  /\ UNCHANGED <<replies_per_member, whitelist, current_height,
                                 timeout>>
             ELSE /\ last' = Call("publish_view", caller, "HashMismatch",
                                  report_conflict(caller, height, view, rolling_hash))
                  /\ UNCHANGED storage
        ELSE PublishNewView(caller, height, view, rolling_hash)
\* publish_view that sends a view a peer holds to the approval round
PublishView_fallthrough(caller, height, view, rolling_hash) ==
    LET commitments == get_all_commitments(commitments_per_member, height)
    IN  IF ~check_contains(whitelist, caller)
        THEN /\ last' = Call("publish_view", caller, "Unauthorized", <<>>)
             /\ UNCHANGED storage
        ELSE IF height \in DOMAIN commitments_per_member[caller]
        THEN /\ last' = Call("publish_view", caller, "DuplicateCoordinate", <<>>)
             /\ UNCHANGED storage
        ELSE PublishNewView(caller, height, view, rolling_hash)
PublishView(caller, height, view, rolling_hash) ==
    LET commitments == get_all_commitments(commitments_per_member, height)
    IN  IF ~check_contains(whitelist, caller)
        THEN /\ last' = Call("publish_view", caller, "Unauthorized", <<>>)
             /\ UNCHANGED storage
        ELSE IF height \in DOMAIN commitments_per_member[caller]
        THEN /\ last' = Call("publish_view", caller, "DuplicateCoordinate", <<>>)
             /\ UNCHANGED storage
        ELSE IF \E i \in 1..Len(commitments) : view = commitments[i][1]
        THEN \E overflow_checks \in HeightOverflowChecks(height) :
             IF overflow_checks /\ i32_borrow(height)
             THEN /\ last' = Call("publish_view", caller, "Trapped", <<>>)
                  /\ UNCHANGED storage
             ELSE IF calculate_rolling_hash(commitments_per_member, caller, height)
                    = rolling_hash
             THEN /\ commitments_per_member' =
                        add_and_publish_view(commitments_per_member, caller,
                                             height, view, rolling_hash)
                  /\ last' = Call("publish_view", caller, "PublishedFastPath",
                                  <<ViewPublished(height, caller, view)>>)
                  /\ UNCHANGED <<replies_per_member, whitelist, current_height,
                                 timeout>>
             ELSE /\ last' = Call("publish_view", caller, "HashMismatch",
                                  report_conflict(caller, height, view, rolling_hash))
                  /\ UNCHANGED storage
        ELSE PublishNewView(caller, height, view, rolling_hash)

\* evaluate_view that keeps the latest verdict only
EvaluateView_replacing(caller, height, evaluated_member, verdict) ==
    LET member == check_contains(whitelist, caller)
        open == /\ evaluated_member \in DOMAIN replies_per_member
                /\ height \in DOMAIN replies_per_member[evaluated_member]
    IN  /\ replies_per_member' =
               IF member /\ open
               THEN [replies_per_member EXCEPT
                         ![evaluated_member][height] = << verdict >>]
               ELSE replies_per_member
        /\ last' = Call("evaluate_view", caller,
                        IF ~member THEN "Unauthorized"
                        ELSE IF open THEN "Done" ELSE "Trapped", <<>>)
        /\ UNCHANGED <<commitments_per_member, whitelist, current_height,
                       timeout>>
EvaluateView(caller, height, evaluated_member, verdict) ==
    LET member == check_contains(whitelist, caller)
        open == /\ evaluated_member \in DOMAIN replies_per_member
                /\ height \in DOMAIN replies_per_member[evaluated_member]
    IN  /\ replies_per_member' =
               IF member /\ open
               THEN [replies_per_member EXCEPT
                         ![evaluated_member][height] = Append(@, verdict)]
               ELSE replies_per_member
        /\ last' = Call("evaluate_view", caller,
                        IF ~member THEN "Unauthorized"
                        ELSE IF open THEN "Done" ELSE "Trapped", <<>>)
        /\ UNCHANGED <<commitments_per_member, whitelist, current_height,
                       timeout>>

\* report_conflict that also drops the replies collected for (caller, height)
ReportConflict_rollback(caller, height, view, rolling_hash) ==
    /\ last' = Call("report_conflict", caller,
                    IF check_contains(whitelist, caller) THEN "Done"
                    ELSE "Unauthorized",
                    report_conflict(caller, height, view, rolling_hash))
    /\ replies_per_member' =
           IF caller \in DOMAIN replies_per_member
           THEN [replies_per_member EXCEPT ![caller] = MapTake(@, height)]
           ELSE replies_per_member
    /\ UNCHANGED <<commitments_per_member, whitelist, current_height,
                   timeout>>
ReportConflict(caller, height, view, rolling_hash) ==
    /\ last' = Call("report_conflict", caller,
                    IF check_contains(whitelist, caller) THEN "Done"
                    ELSE "Unauthorized",
                    report_conflict(caller, height, view, rolling_hash))
    /\ UNCHANGED storage

\* the part of the behaviours that is explored: the clock stays at or below
\* MaxClock and at most MaxReplies replies are stored
Bounded ==
    /\ u32_ge(MaxClock, current_height')
    /\ TotalReplies(replies_per_member') <= MaxReplies

\* <<m, h, commitment>> for every commitment the members in `recorded` hold
StoredCommitments(recorded) ==
    {<<c[1], c[2], commitments_per_member[c[1]][c[2]]>> :
        c \in {x \in (recorded \cap DOMAIN commitments_per_member) \X Heights :
                  x[2] \in DOMAIN commitments_per_member[x[1]]}}

\* history: `committed` holds every commitment a member in `recorded` has
\* held at some moment
Observed(recorded) ==
    /\ committed' = committed \cup StoredCommitments(recorded)'
    /\ UNCHANGED owner

\* the messages, called by `accounts` with arguments from the given sets
Explore(accounts, members, publishers, heights, views, hashes, verdicts, timeouts, recorded) ==
    \/ \E caller \in accounts, t \in timeouts :
           SetTimeout(caller, t) /\ Bounded /\ Observed(recorded)
    \/ \E caller \in accounts :
           IncrementCurHeight(caller) /\ Bounded /\ Observed(recorded)
    \/ \E caller \in accounts, member \in members :
           AddMember(caller, member) /\ Bounded /\ Observed(recorded)
    \/ \E caller \in accounts, member \in members :
           RemoveMember(caller, member) /\ Bounded /\ Observed(recorded)
    \/ \E caller \in publishers, height \in heights, view \in views,
          rolling_hash \in hashes :
           PublishView(caller, height, view, rolling_hash) /\ Bounded /\ Observed(recorded)
    \/ \E caller \in accounts, height \in heights,
          evaluated_member \in accounts, verdict \in verdicts :
           EvaluateView(caller, height, evaluated_member, verdict) /\ Bounded /\ Observed(recorded)
    \/ \E caller \in accounts, height \in heights :
           ReportConflict(caller, height, View1, StrNone) /\ Bounded /\ Observed(recorded)

\* two accounts that both publish "View1" over the heights up to MaxHeight
Next ==
    Explore({0, 1}, {0, 1}, {0, 1}, Heights, {View1}, RollingHashes, {StrOK},
            Timeouts, {})

Spec == Init /\ [][Next]_vars

\* a committee of up to three accounts, one of which publishes one view at
\* one height
NextCommittee ==
    Explore({0, 1, 2}, {0, 1, 2}, {1}, {1}, {View1}, RollingHashes, Verdicts, Timeouts, {})

SpecCommittee == Init /\ [][NextCommittee]_vars

\* two accounts, one of which publishes both views at one height
NextViews ==
    Explore({0, 1}, {0, 1}, {1}, {1}, Views, RollingHashes, Verdicts, Timeouts, {})

SpecViews == Init /\ [][NextViews]_vars

\* two accounts, one of which publishes both views at one height, with the
\* history of its commitments recorded
NextHistory ==
    Explore({0, 1}, {0, 1}, {1}, {1}, Views, {StrNone}, {StrOK}, Timeouts, {1})

SpecHistory == Init /\ [][NextHistory]_vars

\* two accounts that both publish "View1" or "View2" at height 1
NextPeers ==
    Explore({0, 1}, {0, 1}, {0, 1}, {1}, Views, RollingHashes, {StrOK}, Timeouts, {})

SpecPeers == Init /\ [][NextPeers]_vars

\* committees of up to MaxMembers accounts, one of which publishes one view
\* at one height
NextQuorum ==
    Explore({0, 1}, 1..MaxMembers, {1}, {1}, {View1}, RollingHashes, {StrOK},
            Timeouts, {})

SpecQuorum == Init /\ [][NextQuorum]_vars

\* rounds in committees of up to three accounts, with free-form verdicts
NextVerdicts ==
    Explore({0, 1}, {0, 1, 2}, {1}, {1}, {View1}, RollingHashes, FreeVerdicts,
            Timeouts, {})

SpecVerdicts == Init /\ [][NextVerdicts]_vars

(***************************************************************************)
(* The main revision of the contract (src/main/ink!/publicBulletin).  It   *)
(* has no clock and no timeout: approve_view waits in a loop with an empty *)
(* body until the number of replies equals calculate_quorum().  The        *)
(* account that add_member and remove_member accept is [0x1; 32];          *)
(* check_contains, get_all_replies, calculate_quorum,                      *)
(* calculate_rolling_hash, add_and_publish_view and report_conflict are    *)
(* the same code as in the fixture revision.  current_height and timeout   *)
(* stay at 0.                                                              *)
(***************************************************************************)
\* approve_view (lines 129-158): nothing the loop at line 147 reads can
\* change while the call runs, so a call that enters it never returns
main_approve_view(caller, height, view, rolling_hash) ==
    IF caller \notin DOMAIN replies_per_member
    THEN [result |-> "Trapped", replies |-> replies_per_member, events |-> <<>>]
    ELSE LET initialised == initialise_replies(caller, height)
             request == <<ViewApprovalRequest(height, caller, view)>>
             all == get_all_replies(initialised, caller, height)
         IN  IF Len(all) = calculate_quorum
             THEN IF ~check_contains(all, StrNOK)
                  THEN [result |-> "Approved", replies |-> initialised,
                        events |-> request]
                  ELSE [result |-> "Rejected", replies |-> initialised,
                        events |-> request \o
                            report_conflict(caller, height, view, rolling_hash)]
             ELSE [result |-> "NeverReturns", replies |-> replies_per_member,
                   events |-> <<>>]

\* the end of publish_view for a view that no commitment at the height has
\* (lines 120-123)
MainPublishNewView(caller, height, view, rolling_hash) ==
    \E overflow_checks \in HeightOverflowChecks(height) :
        LET r == main_approve_view(caller, height, view, rolling_hash)
            approved == r.result = "Approved"
            trapped == approved /\ overflow_checks /\ i32_borrow(height)
            hash_ok == approved /\ ~trapped /\
                       calculate_rolling_hash(commitments_per_member, caller,
                                              height) = rolling_hash
        IN  /\ replies_per_member' =
                  IF trapped THEN replies_per_member ELSE r.replies
            /\ commitments_per_member' =
                  IF hash_ok
                  THEN add_and_publish_view(commitments_per_member, caller,
                                            height, view, rolling_hash)
                  ELSE commitments_per_member
            /\ last' = Call("publish_view", caller,
                            IF trapped THEN "Trapped"
                            ELSE IF hash_ok THEN "Published"
                            ELSE IF approved THEN "ApprovedHashInvalid"
                            ELSE r.result,
                            IF trapped THEN <<>>
                            ELSE r.events \o
                                 (IF hash_ok
                                  THEN <<ViewPublished(height, caller, view)>>
                                  ELSE <<>>))
            /\ UNCHANGED <<whitelist, current_height, timeout>>

MainPublishView(caller, height, view, rolling_hash) ==
    LET commitments == get_all_commitments(commitments_per_member, height)
    IN  IF ~check_contains(whitelist, caller)
        THEN /\ last' = Call("publish_view", caller, "Unauthorized", <<>>)
             /\ UNCHANGED storage
        ELSE IF height \in DOMAIN commitments_per_member[caller]
        THEN /\ last' = Call("publish_view", caller, "DuplicateCoordinate", <<>>)
             /\ UNCHANGED storage
        ELSE IF \E i \in 1..Len(commitments) : view = commitments[i][1]
        THEN \E overflow_checks \in HeightOverflowChecks(height) :
             IF overflow_checks /\ i32_borrow(height)
             THEN /\ last' = Call("publish_view", caller, "Trapped", <<>>)
                  /\ UNCHANGED storage
             ELSE IF calculate_rolling_hash(commitments_per_member, caller, height)
                    = rolling_hash
             THEN /\ commitments_per_member' =
                        add_and_publish_view(commitments_per_member, caller,
                                             height, view, rolling_hash)
                  /\ last' = Call("publish_view", caller, "PublishedFastPath",
                                  <<ViewPublished(height, caller, view)>>)
                  /\ UNCHANGED <<replies_per_member, whitelist, current_height,
                                 timeout>>
             ELSE /\ last' = Call("publish_view", caller, "HashMismatch",
                                  report_conflict(caller, height, view, rolling_hash))
                  /\ UNCHANGED storage
        ELSE MainPublishNewView(caller, height, view, rolling_hash)

\* evaluate_view (lines 161-166) is a private function in this revision: it
\* is no message of the contract and no message calls it.  Only the unit
\* tests of the revision (mod tests, lines 305-435) call it
MainEvaluateView(caller, height, evaluated_member, verdict) ==
    LET member == check_contains(whitelist, caller)
        open == /\ evaluated_member \in DOMAIN replies_per_member
                /\ height \in DOMAIN replies_per_member[evaluated_member]
    IN  /\ replies_per_member' =
               IF member /\ open
               THEN [replies_per_member EXCEPT
                         ![evaluated_member][height] = Append(@, verdict)]
               ELSE replies_per_member
        /\ last' = Call("evaluate_view", caller,
                        IF ~member THEN "Unauthorized"
                        ELSE IF open THEN "Done" ELSE "Trapped", <<>>)
        /\ UNCHANGED <<commitments_per_member, whitelist, current_height,
                       timeout>>

\* add_height_to_replies (lines 298-301), a private function that only the
\* unit tests call: the reply vector of (caller, height) is replaced by an
\* empty one; the unwrap traps when the caller has no reply map
MainAddHeightToReplies(caller, height) ==
    LET known == caller \in DOMAIN replies_per_member
    IN  /\ replies_per_member' =
               IF known
               THEN [replies_per_member EXCEPT
                         ![caller] = MapInsert(@, height, <<>>)]
               ELSE replies_per_member
        /\ last' = Call("add_height_to_replies", caller,
                        IF known THEN "Done" ELSE "Trapped", <<>>)
        /\ UNCHANGED <<commitments_per_member, whitelist, current_height,
                       timeout>>

\* add_commitment_manually (lines 293-295), a private function that only the
\* unit tests call: the commitment of (member, height) is set without a
\* test of the caller; the unwrap traps when the member has no commitment map
MainAddCommitmentManually(caller, height, member, view, rolling_hash) ==
    LET known == member \in DOMAIN commitments_per_member
    IN  /\ commitments_per_member' =
               IF known
               THEN [commitments_per_member EXCEPT
                         ![member] = MapInsert(@, height, <<view, rolling_hash>>)]
               ELSE commitments_per_member
        /\ last' = Call("add_commitment_manually", caller,
                        IF known THEN "Done" ELSE "Trapped", <<>>)
        /\ UNCHANGED <<replies_per_member, whitelist, current_height,
                       timeout>>

MainReportConflict(caller, height, view, rolling_hash) ==
    /\ last' = Call("report_conflict", caller,
                    IF check_contains(whitelist, caller) THEN "Done"
                    ELSE "Unauthorized",
                    report_conflict(caller, height, view, rolling_hash))
    /\ UNCHANGED storage

\* the account the main revision tests the caller of add_member and
\* remove_member against: InkAccountId::from([0x1; 32])
MainPrivileged == 1

MainAddMember(caller, member) ==
    LET allowed == caller = MainPrivileged
        fresh == ~check_contains(whitelist, member)
    IN  /\ IF allowed /\ fresh
           THEN /\ whitelist' = Append(whitelist, member)
                /\ commitments_per_member' =
                       MapInsert(commitments_per_member, member, EmptyMap)
                /\ replies_per_member' =
                       MapInsert(replies_per_member, member, EmptyMap)
           ELSE UNCHANGED <<whitelist, commitments_per_member, replies_per_member>>
        /\ last' = Call("add_member", caller,
                        IF ~allowed THEN "Unauthorized"
                        ELSE IF fresh THEN "Done" ELSE "AlreadyMember", <<>>)
        /\ UNCHANGED <<current_height, timeout>>

MainRemoveMember(caller, member) ==
    LET allowed == caller = MainPrivileged
        present == check_contains(whitelist, member)
    IN  /\ IF allowed /\ present
           THEN /\ whitelist' = SwapRemoveDrop(whitelist, position(whitelist, member))
                /\ commitments_per_member' = MapTake(commitments_per_member, member)
                /\ replies_per_member' = MapTake(replies_per_member, member)
           ELSE UNCHANGED <<whitelist, commitments_per_member, replies_per_member>>
        /\ last' = Call("remove_member", caller,
                        IF ~allowed THEN "Unauthorized"
                        ELSE IF present THEN "Done" ELSE "NotMember", <<>>)
        /\ UNCHANGED <<current_height, timeout>>

\* the main revision as constructed by any of the accounts: owner is the
\* caller of the constructor
InitMain ==
    \E deployer \in Accounts :
        /\ commitments_per_member = EmptyMap
        /\ replies_per_member = EmptyMap
        /\ whitelist = <<>>
        /\ current_height = 0
        /\ timeout = 0
        /\ last = Call("default", deployer, "Constructed", <<>>)
        /\ committed = {}
        /\ owner = deployer

\* at most MaxReplies replies are stored
MainBounded ==
    /\ TotalReplies(replies_per_member') <= MaxReplies
    /\ UNCHANGED <<committed, owner>>

\* the messages of the main revision (add_member, remove_member,
\* publish_view, report_conflict), called by the accounts on a contract that
\* any of them has constructed
NextMain ==
    \/ \E caller \in Accounts, member \in Accounts : MainAddMember(caller, member) /\ MainBounded
    \/ \E caller \in Accounts, member \in Accounts : MainRemoveMember(caller, member) /\ MainBounded
    \/ \E caller \in Accounts, rolling_hash \in RollingHashes : MainPublishView(caller, 1, View1, rolling_hash) /\ MainBounded
    \/ \E caller \in Accounts : MainReportConflict(caller, 1, View1, StrNone) /\ MainBounded

SpecMain == InitMain /\ [][NextMain]_vars

\* the main revision as its unit tests drive it (mod tests, lines 305-435):
\* the tests call the four messages and, being part of the module, the
\* private functions evaluate_view, add_height_to_replies and
\* add_commitment_manually.  No account can make the last three calls on a
\* deployed contract
NextMainTests ==
    \/ \E caller \in Accounts, member \in Accounts : MainAddMember(caller, member) /\ MainBounded
    \/ \E caller \in Accounts, member \in Accounts : MainRemoveMember(caller, member) /\ MainBounded
    \/ \E caller \in Accounts, rolling_hash \in RollingHashes : MainPublishView(caller, 1, View1, rolling_hash) /\ MainBounded
    \/ \E caller \in Accounts : MainReportConflict(caller, 1, View1, StrNone) /\ MainBounded
    \/ \E caller \in Accounts : MainAddHeightToReplies(caller, 1) /\ MainBounded
    \/ \E caller \in Accounts, evaluated_member \in Accounts, verdict \in Verdicts : MainEvaluateView(caller, 1, evaluated_member, verdict) /\ MainBounded
    \/ \E caller \in Accounts, member \in Accounts : MainAddCommitmentManually(caller, 1, member, View1, StrNone) /\ MainBounded

SpecMainTests == InitMain /\ [][NextMainTests]_vars

\* one publisher, the timeout set to MaxTimeout or to u32::MAX
NextDeadline ==
    Explore({0, 1}, {0, 1}, {0}, {1}, {View1}, RollingHashes, {StrOK},
            {MaxTimeout, U32Max}, {})

SpecDeadline == Init /\ [][NextDeadline]_vars

(***************************************************************************)
(* Definitions the properties are stated with.  They are written from the  *)
(* contract's documentation, not with the operators above.                 *)
(***************************************************************************)
IsMember(account) == \E i \in 1..Len(whitelist) : whitelist[i] = account

HasCommitment(member, height) ==
    /\ member \in DOMAIN commitments_per_member
    /\ height \in DOMAIN commitments_per_member[member]

\* the rolling hash a commitment of member at height must carry
ExpectedHash(member, height) ==
    IF HasCommitment(member, height - 1)
    THEN HashOfCommitment(commitments_per_member[member][height - 1][1],
                          commitments_per_member[member][height - 1][2])
    ELSE StrNone

\* a member other than caller holds a commitment with this view at height
PeerHoldsView(caller, height, view) ==
    \E m \in Accounts \ {caller} :
        HasCommitment(m, height) /\ commitments_per_member[m][height][1] = view

\* no commitment at height has this view
NovelView(height, view) ==
    \A m \in Accounts :
        HasCommitment(m, height) => commitments_per_member[m][height][1] # view

HasReplyCollection(member, height) ==
    /\ member \in DOMAIN replies_per_member
    /\ height \in DOMAIN replies_per_member[member]

\* the replies collected for (member, height)
Replies(member, height) ==
    IF HasReplyCollection(member, height)
    THEN replies_per_member[member][height]
    ELSE <<>>

HasNOK(member, height) ==
    \E i \in 1..Len(Replies(member, height)) : Replies(member, height)[i] = StrNOK

\* the quorum threshold of a committee of n members
QuorumThreshold(n) == IF n <= 2 THEN n \div 2 ELSE n \div 2 + 1

\* the replies for (member, height) are as many as the quorum threshold
QuorumReached(member, height) ==
    Len(Replies(member, height)) = QuorumThreshold(Len(whitelist))

\* how many events of a kind a call has emitted
CountEvents(events, kind) ==
    Cardinality({i \in 1..Len(events) : events[i].event = kind})

\* caller may start an approval round for view at height
StartsRound(caller, height, view) ==
    /\ IsMember(caller)
    /\ ~HasCommitment(caller, height)
    /\ NovelView(height, view)

(***************************************************************************)
(* C1. First write wins: once a commitment exists at (m, h) its value      *)
(* never changes while m stays in the whitelist; no later publish_view of  *)
(* m at h, with any view or hash, replaces it.                             *)
(***************************************************************************)
C1_FirstWriteWins ==
    [][\A m \in Accounts, h \in Heights :
          (HasCommitment(m, h) /\ IsMember(m)')
              => /\ HasCommitment(m, h)'
                 /\ commitments_per_member'[m][h] = commitments_per_member[m][h]
      ]_vars

\* a member that holds a commitment at height 1 has called publish_view at
\* height 1 again
C1_Witness ==
    /\ last.op = "publish_view"
    /\ last.outcome = "DuplicateCoordinate"
    /\ IsMember(last.caller)
    /\ HasCommitment(last.caller, 1)

(***************************************************************************)
(* C2. Commit-time hash check: every commitment a step creates or replaces *)
(* at (m, h) stores the rolling hash computed from the store as it is when *)
(* the step is taken: "None" if m has no commitment at h - 1, else the     *)
(* hash of m's own view and rolling hash at h - 1.                         *)
(***************************************************************************)
C2_CommitTimeHash ==
    [][\A m \in Accounts, h \in Heights :
          (/\ HasCommitment(m, h)'
           /\ \/ ~HasCommitment(m, h)
              \/ commitments_per_member'[m][h] # commitments_per_member[m][h])
              => commitments_per_member'[m][h][2] = ExpectedHash(m, h)
      ]_vars

\* a call has just committed at height 2 a rolling hash that chains to the
\* caller's commitment at height 1
C2_Witness ==
    /\ last.outcome \in {"Published", "PublishedFastPath"}
    /\ last.events[Len(last.events)] = ViewPublished(2, last.caller, View1)
    /\ HasCommitment(last.caller, 1)
    /\ HasCommitment(last.caller, 2)
    /\ commitments_per_member[last.caller][2][2] # StrNone

(***************************************************************************)
(* C3. Hash chain verifiable from the store: in every reachable state the  *)
(* rolling hash of every commitment equals the one recomputed from the     *)
(* current store, whatever the order the heights were published in.        *)
(***************************************************************************)
C3_ChainVerifiable ==
    \A m \in Accounts, h \in Heights :
        HasCommitment(m, h)
            => commitments_per_member[m][h][2] = ExpectedHash(m, h)

(***************************************************************************)
(* C4. Membership gating: publish_view, evaluate_view and report_conflict  *)
(* called by an account outside the whitelist change nothing of the        *)
(* storage and emit no event; so an account that has been removed          *)
(* publishes nothing.                                                      *)
(***************************************************************************)
C4_MembershipGating ==
    [][\A caller \in Accounts, height \in Heights :
          (/\ ~IsMember(caller)
           /\ last'.caller = caller
           /\ \/ \E view \in Views, rolling_hash \in RollingHashes :
                    \/ PublishView(caller, height, view, rolling_hash)
                    \/ ReportConflict(caller, height, view, rolling_hash)
              \/ \E evaluated_member \in Accounts, verdict \in Verdicts :
                    EvaluateView(caller, height, evaluated_member, verdict))
              => /\ UNCHANGED storage
                 /\ last'.events = <<>>
      ]_vars

\* an account that held a commitment as a member has been removed and has
\* then called publish_view
C4_Witness ==
    /\ last.op = "publish_view"
    /\ last.outcome = "Unauthorized"
    /\ ~IsMember(last.caller)
    /\ \E c \in committed : c[1] = last.caller

(***************************************************************************)
(* C5. Fast-path acceptance: a member without a commitment at h that       *)
(* publishes a view a peer holds at h, with the rolling hash of its own    *)
(* chain, commits (view, rolling hash) and emits ViewPublished and nothing *)
(* else; no reply collection is created, read or changed, whatever the     *)
(* replies and the quorum are.                                             *)
(***************************************************************************)
C5_FastPathAcceptance ==
    [][\A caller \in Accounts, height \in Heights, view \in Views,
          rolling_hash \in RollingHashes :
          (/\ last'.op = "publish_view"
           /\ IsMember(caller)
           /\ ~HasCommitment(caller, height)
           /\ PeerHoldsView(caller, height, view)
           /\ rolling_hash = ExpectedHash(caller, height)
           /\ PublishView(caller, height, view, rolling_hash))
              => /\ HasCommitment(caller, height)'
                 /\ commitments_per_member'[caller][height] = <<view, rolling_hash>>
                 /\ last'.events = <<ViewPublished(height, caller, view)>>
                 /\ UNCHANGED replies_per_member
      ]_vars

\* a fast-path commit at height 2, chained to the caller's height 1, while
\* the committee's quorum is not zero
C5_Witness ==
    /\ last.outcome = "PublishedFastPath"
    /\ last.events = <<ViewPublished(2, last.caller, View1)>>
    /\ HasCommitment(last.caller, 2)
    /\ commitments_per_member[last.caller][2][2] # StrNone
    /\ Len(whitelist) = 2

(***************************************************************************)
(* C6. Fast-path rejection: a member without a commitment at h that        *)
(* publishes a view a peer holds at h with a rolling hash other than the   *)
(* one of its own chain creates no commitment, emits exactly one           *)
(* ViewConflict{h, caller, view, rolling hash} and no approval request,    *)
(* and leaves the replies alone.                                           *)
(***************************************************************************)
C6_FastPathRejection ==
    [][\A caller \in Accounts, height \in Heights, view \in Views,
          rolling_hash \in RollingHashes :
          (/\ last'.op = "publish_view"
           /\ IsMember(caller)
           /\ ~HasCommitment(caller, height)
           /\ PeerHoldsView(caller, height, view)
           /\ rolling_hash # ExpectedHash(caller, height)
           /\ PublishView(caller, height, view, rolling_hash))
              => /\ ~HasCommitment(caller, height)'
                 /\ last'.events =
                        <<ViewConflict(height, caller, view, rolling_hash)>>
                 /\ UNCHANGED storage
      ]_vars

\* a publish_view of a peer's view has just ended in a conflict
C6_Witness ==
    /\ last.op = "publish_view"
    /\ last.outcome = "HashMismatch"
    /\ CountEvents(last.events, "ViewConflict") = 1
    /\ PeerHoldsView(last.caller, last.events[1].height, last.events[1].view)
    /\ ~HasCommitment(last.caller, last.events[1].height)

(***************************************************************************)
(* C7. Quorum approval: when a member publishes a novel view at h with the *)
(* rolling hash of its chain, and the replies for (caller, h) are as many  *)
(* as the quorum threshold and none is "NOK", the view is committed at     *)
(* (caller, h) and ViewPublished is emitted, with no ViewConflict.  A      *)
(* committee of three publishes by quorum with exactly two replies.        *)
(***************************************************************************)
C7_QuorumApproval ==
    [][/\ \A caller \in Accounts, height \in Heights, view \in Views,
             rolling_hash \in RollingHashes :
             (/\ last'.op = "publish_view"
              /\ StartsRound(caller, height, view)
              /\ rolling_hash = ExpectedHash(caller, height)
              /\ QuorumReached(caller, height)
              /\ ~HasNOK(caller, height)
              /\ PublishView(caller, height, view, rolling_hash))
                 => /\ HasCommitment(caller, height)'
                    /\ commitments_per_member'[caller][height]
                           = <<view, rolling_hash>>
                    /\ last'.events = <<ViewApprovalRequest(height, caller, view),
                                        ViewPublished(height, caller, view)>>
       /\ (last'.outcome = "Published" /\ Len(whitelist) = 3)
             => Len(Replies(last'.caller, last'.events[1].height)) = 2
      ]_vars

\* a member of a committee of three has just published on two replies
C7_Witness ==
    /\ last.op = "publish_view"
    /\ last.outcome = "Published"
    /\ Len(whitelist) = 3
    /\ Len(Replies(last.caller, 1)) = 2
    /\ ~HasNOK(last.caller, 1)
    /\ HasCommitment(last.caller, 1)

(***************************************************************************)
(* C8. Quorum rejection: when a round for (caller, h) is decided with as   *)
(* many replies as the quorum threshold and at least one "NOK", no         *)
(* commitment is created, no ViewPublished is emitted and exactly one      *)
(* ViewConflict{h, caller, view, rolling hash} is, whatever the rolling    *)
(* hash supplied and however many "OK" replies there are.                  *)
(***************************************************************************)
C8_QuorumRejection ==
    [][\A caller \in Accounts, height \in Heights, view \in Views,
          rolling_hash \in RollingHashes :
          (/\ last'.op = "publish_view"
           /\ StartsRound(caller, height, view)
           /\ QuorumReached(caller, height)
           /\ HasNOK(caller, height)
           /\ PublishView(caller, height, view, rolling_hash))
              => /\ commitments_per_member' = commitments_per_member
                 /\ last'.events =
                        <<ViewApprovalRequest(height, caller, view),
                          ViewConflict(height, caller, view, rolling_hash)>>
      ]_vars

\* a member of a committee of three has just been rejected on one "OK" and
\* one "NOK"
C8_Witness ==
    /\ last.op = "publish_view"
    /\ last.outcome = "Rejected"
    /\ Len(whitelist) = 3
    /\ \E i, j \in 1..Len(Replies(last.caller, 1)) :
          /\ Replies(last.caller, 1)[i] = StrOK
          /\ Replies(last.caller, 1)[j] = StrNOK
    /\ ~HasCommitment(last.caller, 1)

(***************************************************************************)
(* C9. Timeout rollback: when a round for (caller, h) is sampled with a    *)
(* number of replies other than the quorum threshold while                 *)
(* current_height >= initial height + timeout, the reply collection for    *)
(* (caller, h) is removed, replies already cast included, no commitment is *)
(* created and neither ViewConflict nor ViewPublished is emitted, also     *)
(* with a "NOK" collected.  The initial height of a round is the clock of  *)
(* the call that samples it.                                               *)
(***************************************************************************)
C9_TimeoutRollback ==
    [][\A caller \in Accounts, height \in Heights, view \in Views,
          rolling_hash \in RollingHashes :
          (/\ last'.op = "publish_view"
           /\ StartsRound(caller, height, view)
           /\ ~QuorumReached(caller, height)
           /\ current_height >= current_height + timeout
           /\ PublishView(caller, height, view, rolling_hash))
              => /\ last'.outcome = "TimedOut"
                 /\ ~HasReplyCollection(caller, height)'
                 /\ commitments_per_member' = commitments_per_member
                 /\ last'.events = <<ViewApprovalRequest(height, caller, view)>>
      ]_vars

\* a member of a committee of three has just timed out, and its reply
\* collection is gone
C9_Witness ==
    /\ last.op = "publish_view"
    /\ last.outcome = "TimedOut"
    /\ Len(whitelist) = 3
    /\ timeout = 0
    /\ ~HasReplyCollection(last.caller, 1)
    /\ ~HasCommitment(last.caller, 1)

(***************************************************************************)
(* C10. Approved but hash invalid: when a round for a novel view is        *)
(* approved (as many replies as the quorum threshold, none "NOK") and the  *)
(* rolling hash supplied is not the one of the caller's chain, no          *)
(* commitment is created and the only event of the call is its             *)
(* ViewApprovalRequest.                                                    *)
(***************************************************************************)
C10_ApprovedHashInvalid ==
    [][\A caller \in Accounts, height \in Heights, view \in Views,
          rolling_hash \in RollingHashes :
          (/\ last'.op = "publish_view"
           /\ StartsRound(caller, height, view)
           /\ QuorumReached(caller, height)
           /\ ~HasNOK(caller, height)
           /\ rolling_hash # ExpectedHash(caller, height)
           /\ PublishView(caller, height, view, rolling_hash))
              => /\ last'.outcome = "ApprovedHashInvalid"
                 /\ commitments_per_member' = commitments_per_member
                 /\ last'.events = <<ViewApprovalRequest(height, caller, view)>>
      ]_vars

\* a member of a committee of two has just been approved by a reply and
\* dropped for its hash
C10_Witness ==
    /\ last.op = "publish_view"
    /\ last.outcome = "ApprovedHashInvalid"
    /\ Len(whitelist) = 2
    /\ Len(Replies(last.caller, 1)) = 1
    /\ ~HasNOK(last.caller, 1)
    /\ ~HasCommitment(last.caller, 1)

(***************************************************************************)
(* C11. Reaching quorum decides the round: whenever a round of a member    *)
(* for (caller, h) is sampled with at least as many replies as the quorum  *)
(* threshold, it is approved if no reply is "NOK" and rejected otherwise;  *)
(* it neither keeps waiting nor times out.                                 *)
(***************************************************************************)
C11_QuorumDecides ==
    [][\A caller \in Accounts, height \in Heights, view \in Views,
          rolling_hash \in RollingHashes :
          (/\ last'.op = "publish_view"
           /\ StartsRound(caller, height, view)
           /\ Len(Replies(caller, height)) >= QuorumThreshold(Len(whitelist))
           /\ PublishView(caller, height, view, rolling_hash))
              => /\ HasReplyCollection(caller, height)'
                 /\ last'.outcome \in
                        IF HasNOK(caller, height) THEN {"Rejected"}
                        ELSE {"Published", "ApprovedHashInvalid"}
      ]_vars

(***************************************************************************)
(* C12. Deadline before quorum means TimedOut: a round of a member that is *)
(* sampled with fewer replies than the quorum threshold while the clock is *)
(* at or past initial height + timeout ends TimedOut and commits nothing.  *)
(* A publish_view call is one transaction: no evaluate_view runs between   *)
(* the moment the deadline is reached and the sample of the count.         *)
(***************************************************************************)
C12_DeadlineBeforeQuorum ==
    [][\A caller \in Accounts, height \in Heights, view \in Views,
          rolling_hash \in RollingHashes :
          (/\ last'.op = "publish_view"
           /\ StartsRound(caller, height, view)
           /\ Len(Replies(caller, height)) < QuorumThreshold(Len(whitelist))
           /\ current_height >= current_height + timeout
           /\ PublishView(caller, height, view, rolling_hash))
              => /\ last'.outcome = "TimedOut"
                 /\ commitments_per_member' = commitments_per_member
                 /\ CountEvents(last'.events, "ViewPublished") = 0
      ]_vars

\* a member of a committee of two, whose quorum is one reply, has just timed
\* out with the clock advanced
C12_Witness ==
    /\ last.op = "publish_view"
    /\ last.outcome = "TimedOut"
    /\ Len(whitelist) = 2
    /\ current_height > 0
    /\ ~HasCommitment(last.caller, 1)

(***************************************************************************)
(* C13. DuplicateCoordinate is a complete no-op: publish_view by a member  *)
(* that holds a commitment at (caller, h), with any view and hash, changes *)
(* nothing of the storage and emits no event.      *)
(***************************************************************************)
C13_DuplicateNoOp ==
    [][\A caller \in Accounts, height \in Heights, view \in Views,
          rolling_hash \in RollingHashes :
          (/\ last'.op = "publish_view"
           /\ IsMember(caller)
           /\ HasCommitment(caller, height)
           /\ PublishView(caller, height, view, rolling_hash))
              => /\ UNCHANGED storage
                 /\ last'.events = <<>>
      ]_vars

\* a member holding a commitment at height 1 has just called publish_view
\* there, while a reply collection and a committee of two exist
C13_Witness ==
    /\ last.op = "publish_view"
    /\ last.outcome = "DuplicateCoordinate"
    /\ IsMember(last.caller)
    /\ HasCommitment(last.caller, 1)
    /\ HasReplyCollection(last.caller, 1)
    /\ Len(whitelist) = 2

(***************************************************************************)

(* C14. At most one commitment per coordinate ever: the commitments a      *)
(* coordinate (member, height) has held over the whole run, a removal and  *)
(* a new addition of the member included, are all the same commitment.     *)
(***************************************************************************)
C14_OneCommitmentEver ==
    \A e1, e2 \in committed :
        (e1[1] = e2[1] /\ e1[2] = e2[2]) => e1[3] = e2[3]

(***************************************************************************)
(* C15. Quorum formula: for a whitelist of N members the quorum is         *)
(* floor(N/2) when N <= 2 and floor(N/2) + 1 when N > 2, that is 0, 0, 1,  *)
(* 2, 3, 3 for N = 0..5; and a round is decided exactly when its replies   *)
(* are as many as the threshold of the whitelist at the moment the count   *)
(* is sampled, whatever the whitelist was when its replies were collected. *)
(***************************************************************************)
C15_QuorumFormula ==
    [][/\ calculate_quorum = QuorumThreshold(Len(whitelist))
       /\ Len(whitelist) <= 5
             => calculate_quorum = <<0, 0, 1, 2, 3, 3>>[Len(whitelist) + 1]
       /\ \A caller \in 0..MaxMembers, height \in Heights, view \in Views,
             rolling_hash \in RollingHashes :
             (/\ last'.op = "publish_view"
              /\ StartsRound(caller, height, view)
              /\ PublishView(caller, height, view, rolling_hash))
                 => (last'.outcome \in {"Published", "ApprovedHashInvalid", "Rejected"}
                        <=> QuorumReached(caller, height))
      ]_vars

\* a round whose reply collection was opened in a committee of one has been
\* approved on the one reply that a committee of two asks for
C15_Witness ==
    /\ last.op = "publish_view"
    /\ last.outcome = "Published"
    /\ Len(whitelist) = 2
    /\ Len(Replies(last.caller, 1)) = 1
    /\ timeout > 0

(***************************************************************************)
(* C16. Solo committee: when the whitelist holds the caller alone and no   *)
(* reply has been cast for (caller, h), publish_view of a novel view at h  *)
(* with the rolling hash of the caller's chain commits and emits           *)
(* ViewPublished in that call.                     *)
(***************************************************************************)
C16_SoloCommittee ==
    [][\A caller \in 0..MaxMembers, height \in Heights, view \in Views,
          rolling_hash \in RollingHashes :
          (/\ last'.op = "publish_view"
           /\ whitelist = <<caller>>
           /\ StartsRound(caller, height, view)
           /\ Len(Replies(caller, height)) = 0
           /\ rolling_hash = ExpectedHash(caller, height)
           /\ PublishView(caller, height, view, rolling_hash))
              => /\ HasCommitment(caller, height)'
                 /\ commitments_per_member'[caller][height] = <<view, rolling_hash>>
                 /\ last'.events = <<ViewApprovalRequest(height, caller, view),
                                     ViewPublished(height, caller, view)>>
      ]_vars

\* the only member has just published without replies, with a timeout set
C16_Witness ==
    /\ last.op = "publish_view"
    /\ last.outcome = "Published"
    /\ whitelist = <<last.caller>>
    /\ Len(Replies(last.caller, 1)) = 0
    /\ HasCommitment(last.caller, 1)
    /\ timeout > 0

(***************************************************************************)
(* C17. Replies append without deduplication: evaluate_view by a member on *)
(* an existing reply collection for (evaluated, h) adds exactly one entry, *)
(* the verdict, after the earlier entries, which keep their order, whoever *)
(* the caller is (the evaluated member, or one that has replied before)    *)
(* and whatever was replied before; nothing else changes.                  *)
(***************************************************************************)
C17_RepliesAppend ==
    [][\A caller \in Accounts, height \in Heights, evaluated_member \in Accounts,
          verdict \in Verdicts :
          (/\ last'.op = "evaluate_view"
           /\ IsMember(caller)
           /\ HasReplyCollection(evaluated_member, height)
           /\ EvaluateView(caller, height, evaluated_member, verdict))
              => LET old == replies_per_member[evaluated_member][height]
                     new == replies_per_member'[evaluated_member][height]
                 IN  /\ HasReplyCollection(evaluated_member, height)'
                     /\ Len(new) = Len(old) + 1
                     /\ \A i \in 1..Len(old) : new[i] = old[i]
                     /\ new[Len(new)] = verdict
                     /\ \A m \in Accounts, h \in Heights :
                           <<m, h>> # <<evaluated_member, height>>
                              => /\ HasReplyCollection(m, h)' = HasReplyCollection(m, h)
                                 /\ Replies(m, h)' = Replies(m, h)
                     /\ UNCHANGED <<commitments_per_member, whitelist,
                                    current_height, timeout>>
      ]_vars

\* the only member has just replied to its own round for the second time,
\* with the verdict it gave before
C17_Witness ==
    /\ last.op = "evaluate_view"
    /\ last.outcome = "Done"
    /\ whitelist = <<last.caller>>
    /\ Len(Replies(last.caller, 1)) = 2
    /\ Replies(last.caller, 1)[1] = Replies(last.caller, 1)[2]
    /\ current_height = 0
    /\ timeout = 0

(***************************************************************************)
(* C18. Privileged gating: add_member, remove_member, set_timeout and      *)
(* increment_cur_height called by anyone but the privileged account leave  *)
(* the whitelist, the commitments, the replies, the clock and the timeout  *)
(* unchanged and end normally, also when a member asks to remove itself.   *)
(***************************************************************************)
C18_PrivilegedGating ==
    [][\A caller \in Accounts \ {DefaultAccount} :
          /\ \A t \in Timeouts :
                (last'.op = "set_timeout" /\ SetTimeout(caller, t))
                   => UNCHANGED storage /\ last'.outcome = "Unauthorized"
          /\ (last'.op = "increment_cur_height" /\ IncrementCurHeight(caller))
                => UNCHANGED storage /\ last'.outcome = "Unauthorized"
          /\ \A member \in Accounts :
                (last'.op = "add_member" /\ AddMember(caller, member))
                   => UNCHANGED storage /\ last'.outcome = "Unauthorized"
          /\ \A member \in Accounts :
                (last'.op = "remove_member" /\ RemoveMember(caller, member))
                   => UNCHANGED storage /\ last'.outcome = "Unauthorized"
      ]_vars

\* a member holding a commitment was refused a removal (its own, or its
\* peer's) and is still a member with its commitment
C18_Witness ==
    /\ last.op = "remove_member"
    /\ last.outcome = "Unauthorized"
    /\ last.caller # DefaultAccount
    /\ IsMember(last.caller)
    /\ HasCommitment(last.caller, 1)
    /\ Len(whitelist) = 2

(***************************************************************************)
(* C19. remove_member purges exactly one member: called by the privileged  *)
(* account for a member, it takes the member off the whitelist and drops   *)
(* all its commitments and reply collections, while every other account    *)
(* keeps its membership, its commitments and its replies; an add_member of *)
(* an account that is not a member starts it with empty collections.       *)
(***************************************************************************)
C19_RemovePurgesOne ==
    [][\A member \in Accounts :
          /\ (/\ last'.op = "remove_member"
              /\ IsMember(member)
              /\ RemoveMember(DefaultAccount, member))
                => /\ ~IsMember(member)'
                   /\ member \notin DOMAIN commitments_per_member'
                   /\ member \notin DOMAIN replies_per_member'
                   /\ \A h \in Heights : ~HasCommitment(member, h)' /\ ~HasReplyCollection(member, h)'
                   /\ Len(whitelist') = Len(whitelist) - 1
                   /\ \A other \in Accounts \ {member} :
                         /\ IsMember(other)' = IsMember(other)
                         /\ (other \in DOMAIN commitments_per_member') = (other \in DOMAIN commitments_per_member)
                         /\ (other \in DOMAIN replies_per_member') = (other \in DOMAIN replies_per_member)
                         /\ other \in DOMAIN commitments_per_member
                               => commitments_per_member'[other] = commitments_per_member[other]
                         /\ other \in DOMAIN replies_per_member
                               => replies_per_member'[other] = replies_per_member[other]
                   /\ UNCHANGED <<current_height, timeout>>
          /\ (/\ last'.op = "add_member"
              /\ ~IsMember(member)
              /\ AddMember(DefaultAccount, member))
                => /\ IsMember(member)'
                   /\ member \notin DOMAIN commitments_per_member
                   /\ member \notin DOMAIN replies_per_member
                   /\ commitments_per_member'[member] = EmptyMap
                   /\ replies_per_member'[member] = EmptyMap
      ]_vars

\* a member has just been removed, and the member that stays holds a
\* commitment and the replies it collected
C19_Witness ==
    /\ last.op = "remove_member"
    /\ last.outcome = "Done"
    /\ Len(whitelist) = 1
    /\ HasCommitment(whitelist[1], 1)
    /\ HasReplyCollection(whitelist[1], 1)
    /\ Len(Replies(whitelist[1], 1)) > 0

(***************************************************************************)
(* C20. add_member is idempotent: called by the privileged account for an  *)
(* account that is a member it changes nothing, so the commitments and the *)
(* reply collections of the member stay as they are; after any add_member  *)
(* by the privileged account the whitelist holds exactly one entry for the *)
(* account, so a second call finds the state of the first and keeps it.    *)
(***************************************************************************)
C20_AddMemberIdempotent ==
    [][\A member \in Accounts :
          (last'.op = "add_member" /\ AddMember(DefaultAccount, member))
             => /\ IsMember(member)'
                /\ Cardinality({i \in 1..Len(whitelist') : whitelist'[i] = member}) = 1
                /\ IsMember(member)
                      => /\ UNCHANGED storage
                         /\ last'.outcome = "AlreadyMember"
                         /\ \A h \in Heights :
                               /\ HasCommitment(member, h)' = HasCommitment(member, h)
                               /\ HasReplyCollection(member, h)' = HasReplyCollection(member, h)
                               /\ Replies(member, h)' = Replies(member, h)
      ]_vars

\* the only member, holding a commitment and a reply collection with a
\* reply, has just been added again
C20_Witness ==
    /\ last.op = "add_member"
    /\ last.outcome = "AlreadyMember"
    /\ Len(whitelist) = 1
    /\ HasCommitment(whitelist[1], 1)
    /\ HasReplyCollection(whitelist[1], 1)
    /\ Len(Replies(whitelist[1], 1)) > 0

(***************************************************************************)
(* C21. Clock monotonicity: current_height starts at 0, never decreases,   *)
(* and changes only in an increment_cur_height called by the privileged    *)
(* account, which raises it by exactly 1; no other message and no other    *)
(* caller alters it.                                                       *)
(***************************************************************************)
C21_ClockMonotonic ==
    /\ current_height = 0
    /\ [][/\ current_height' >= current_height
          /\ current_height' # current_height
                => /\ last'.op = "increment_cur_height"
                   /\ last'.caller = DefaultAccount
                   /\ current_height' = current_height + 1
          /\ (last'.op = "increment_cur_height" /\ IncrementCurHeight(DefaultAccount))
                => current_height' = current_height + 1
          /\ last'.op \in {"publish_view", "evaluate_view",
                           "report_conflict", "add_member", "remove_member",
                           "set_timeout"}
                => current_height' = current_height
       ]_vars

\* the privileged account has advanced the clock of a contract that holds
\* a commitment and a reply collection
C21_Witness ==
    /\ last.op = "increment_cur_height"
    /\ last.outcome = "Done"
    /\ last.caller = DefaultAccount
    /\ current_height = 1
    /\ HasCommitment(1, 1)
    /\ HasReplyCollection(1, 1)

(***************************************************************************)
(* C22. Reply collections are purged on a quorum decision: when the round  *)
(* of a member for (caller, h) is decided by quorum, approved or rejected, *)
(* the reply collection for (caller, h) does not exist any more.           *)
(***************************************************************************)
C22_DecisionPurgesReplies ==
    [][\A caller \in 0..MaxMembers, height \in Heights, view \in Views,
          rolling_hash \in RollingHashes :
          (/\ last'.op = "publish_view"
           /\ last'.outcome \in {"Published", "ApprovedHashInvalid", "Rejected"}
           /\ PublishView(caller, height, view, rolling_hash))
              => ~HasReplyCollection(caller, height)'
      ]_vars

(***************************************************************************)
(* C23. Only the exact string "NOK" rejects: a round decided by quorum is  *)
(* rejected if and only if one of its replies is exactly "NOK"; replies    *)
(* such as "OK", "Ok", "nok" or "" approve it.                             *)
(***************************************************************************)
C23_OnlyNOKRejects ==
    [][\A caller \in 0..MaxMembers, height \in Heights, view \in Views,
          rolling_hash \in RollingHashes :
          (/\ last'.op = "publish_view"
           /\ last'.outcome \in {"Published", "ApprovedHashInvalid", "Rejected"}
           /\ PublishView(caller, height, view, rolling_hash))
              => /\ (last'.outcome = "Rejected")
                        = (\E i \in 1..Len(Replies(caller, height)) :
                              Replies(caller, height)[i] = <<78, 79, 75>>)
                 /\ CountEvents(last'.events, "ViewConflict")
                        = IF last'.outcome = "Rejected" THEN 1 ELSE 0
      ]_vars

\* a round of a committee of three was approved and committed on the two
\* replies "nok" and ""
C23_Witness ==
    /\ last.op = "publish_view"
    /\ last.outcome = "Published"
    /\ Len(whitelist) = 3
    /\ HasCommitment(last.caller, 1)
    /\ Replies(last.caller, 1) = <<Strnok, StrEmpty>>

(***************************************************************************)
(* C24. report_conflict only signals: called by a member it emits exactly  *)
(* one ViewConflict event carrying the height, the caller, the view and    *)
(* the rolling hash of the call, and changes neither the commitments, the  *)
(* replies, the whitelist, the clock nor the timeout, whatever commitments *)
(* and rounds exist.                                                       *)
(***************************************************************************)
C24_ReportOnlySignals ==
    [][\A caller \in Accounts, height \in Heights, view \in Views,
          rolling_hash \in RollingHashes :
          (/\ last'.op = "report_conflict"
           /\ IsMember(caller)
           /\ ReportConflict(caller, height, view, rolling_hash))
              => /\ last'.events = <<[event |-> "ViewConflict", height |-> height,
                                      member |-> caller, view |-> view,
                                      rolling_hash |-> rolling_hash]>>
                 /\ last'.outcome = "Done"
                 /\ UNCHANGED <<commitments_per_member, replies_per_member,
                                whitelist, current_height, timeout>>
      ]_vars

\* a member that holds a commitment at height 1 and a reply collection
\* there, with a reply cast, has reported a conflict
C24_Witness ==
    /\ last.op = "report_conflict"
    /\ last.outcome = "Done"
    /\ Len(last.events) = 1
    /\ HasCommitment(last.caller, 1)
    /\ Len(Replies(last.caller, 1)) > 0

(***************************************************************************)
(* C25. evaluate_view never fails toward the caller: every evaluate_view   *)
(* call returns normally, also the call of a member for a coordinate       *)
(* (evaluated member, h) that has no reply collection, which is a silent   *)
(* no-op.                                                                  *)
(***************************************************************************)
C25_EvaluateNeverTraps ==
    last.op = "evaluate_view" => last.outcome \in {"Done", "Unauthorized"}

(***************************************************************************)
(* C26. Every approval round ends: a publish_view call of a member that    *)
(* enters the approval round of a novel view ends approved, rejected or    *)
(* timed out, whatever replies are stored and whatever the timeout is.     *)
(* The call is one transaction, so no increment_cur_height runs while it   *)
(* waits: a call that does not end so never returns.                       *)
(***************************************************************************)
C26_RoundEnds ==
    [][\A caller \in Accounts, height \in Heights, view \in Views,
          rolling_hash \in RollingHashes :
          (/\ last'.op = "publish_view"
           /\ StartsRound(caller, height, view)
           /\ PublishView(caller, height, view, rolling_hash))
              => last'.outcome \in {"Published", "ApprovedHashInvalid",
                                    "Rejected", "TimedOut"}
      ]_vars

(***************************************************************************)
(* C27. The wait loop of the revision without a timeout is never infinite  *)
(* when enough replies arrive: a publish_view call of a member for a novel *)
(* view, made when at least as many replies as the quorum threshold have   *)
(* been cast for (caller, h), returns.  Replies are cast by evaluate_view, *)
(* which in this revision only the unit tests can call.                    *)
(***************************************************************************)
C27_WaitTerminates ==
    [][\A caller \in Accounts, height \in Heights, view \in Views,
          rolling_hash \in RollingHashes :
          (/\ last'.op = "publish_view"
           /\ StartsRound(caller, height, view)
           /\ Len(Replies(caller, height)) >= QuorumThreshold(Len(whitelist))
           /\ MainPublishView(caller, height, view, rolling_hash))
              => last'.outcome # "NeverReturns"
      ]_vars

(***************************************************************************)
(* C28. The publication event matches the store: a call emits a            *)
(* ViewPublished event for (h, m, view) exactly when it is a publish_view  *)
(* of m that writes the commitment at (m, h) with that view; a commitment  *)
(* appears or changes only with its event, an event is emitted only with   *)
(* its commitment in the store, at most once per call, and never together  *)
(* with a ViewConflict.                                                    *)
(***************************************************************************)
C28_EventMatchesStore ==
    [][/\ \A m \in Accounts, h \in Heights :
             (/\ HasCommitment(m, h)'
              /\ ~HasCommitment(m, h) \/ commitments_per_member'[m][h] # commitments_per_member[m][h])
                 => /\ last'.op = "publish_view"
                    /\ last'.caller = m
                    /\ \E i \in 1..Len(last'.events) :
                          last'.events[i] = [event |-> "ViewPublished", height |-> h,
                                             member |-> m,
                                             view |-> commitments_per_member'[m][h][1]]
       /\ \A i \in 1..Len(last'.events) :
             last'.events[i].event = "ViewPublished"
                 => /\ last'.op = "publish_view"
                    /\ last'.outcome \in {"Published", "PublishedFastPath"}
                    /\ \E m \in Accounts, h \in Heights :
                          /\ m = last'.caller
                          /\ last'.events[i].member = m
                          /\ last'.events[i].height = h
                          /\ HasCommitment(m, h)'
                          /\ commitments_per_member'[m][h][1] = last'.events[i].view
       /\ CountEvents(last'.events, "ViewPublished") <= 1
       /\ CountEvents(last'.events, "ViewPublished") = 0
             \/ CountEvents(last'.events, "ViewConflict") = 0
       /\ last'.outcome \in {"Published", "PublishedFastPath"}
             => CountEvents(last'.events, "ViewPublished") = 1
      ]_vars

\* a round of a member has ended with the commitment of "View2" in the store
\* and the event for it
C28_Witness ==
    /\ last.op = "publish_view"
    /\ last.outcome = "Published"
    /\ HasCommitment(last.caller, 1)
    /\ commitments_per_member[last.caller][1][1] = View2
    /\ \E i \in 1..Len(last.events) :
          last.events[i] = [event |-> "ViewPublished", height |-> 1,
                            member |-> last.caller, view |-> View2]

(***************************************************************************)
(* C29. Approval request event: a publish_view call of a member that holds *)
(* no commitment at (caller, h), for a view no commitment at h has, emits  *)
(* ViewApprovalRequest for (h, caller, view) exactly once, before any      *)
(* event of the decision, also when the replies present at entry already   *)
(* make up the quorum; a call on the fast path, for a duplicate coordinate *)
(* or by a non-member emits none.  Stated for the calls that return: a     *)
(* call that does not is reverted with all it emitted.                     *)
(***************************************************************************)
C29_ApprovalRequestOnce ==
    [][/\ \A caller \in Accounts, height \in Heights, view \in Views,
             rolling_hash \in RollingHashes :
             (/\ last'.op = "publish_view"
              /\ last'.caller = caller
              /\ last'.outcome \notin {"NeverReturns", "Trapped"}
              /\ PublishView(caller, height, view, rolling_hash))
                 => IF StartsRound(caller, height, view)
                    THEN /\ Len(last'.events) >= 1
                         /\ last'.events[1] = [event |-> "ViewApprovalRequest",
                                               height |-> height, member |-> caller,
                                               view |-> view]
                         /\ CountEvents(last'.events, "ViewApprovalRequest") = 1
                    ELSE CountEvents(last'.events, "ViewApprovalRequest") = 0
       /\ last'.op # "publish_view"
             => CountEvents(last'.events, "ViewApprovalRequest") = 0
      ]_vars

\* a round of a committee of two was decided at entry on a reply that was
\* there before the call, after its request was emitted
C29_Witness ==
    /\ last.op = "publish_view"
    /\ last.outcome = "Published"
    /\ Len(whitelist) = 2
    /\ Len(last.events) = 2
    /\ last.events[1].event = "ViewApprovalRequest"
    /\ last.events[2].event = "ViewPublished"
    /\ \E h \in Heights : Len(Replies(last.caller, h)) = 1 /\ last.events[1].height = h

(***************************************************************************)
(* C30. Store domains track membership: the whitelist has no duplicate,    *)
(* and the members with a commitment map, the members with a reply map and *)
(* the members on the whitelist are the same accounts; so the scan of all  *)
(* commitments at a height sees the commitments of members only, one for   *)
(* each member that holds one there.                                       *)
(***************************************************************************)
C30_DomainsTrackMembership ==
    /\ \A i, j \in 1..Len(whitelist) : whitelist[i] = whitelist[j] => i = j
    /\ DOMAIN commitments_per_member = {whitelist[i] : i \in 1..Len(whitelist)}
    /\ DOMAIN replies_per_member = {whitelist[i] : i \in 1..Len(whitelist)}
    /\ \A h \in Heights :
          Len(get_all_commitments(commitments_per_member, h))
              = Cardinality({i \in 1..Len(whitelist) : HasCommitment(whitelist[i], h)})

\* a member whose commitment at height 1 was recorded has been removed: the
\* scan at height 1 is empty while another account is a member
C30_Witness ==
    /\ last.op = "remove_member"
    /\ last.outcome = "Done"
    /\ Len(whitelist) = 1
    /\ \E e \in committed : e[2] = 1 /\ ~IsMember(e[1])
    /\ get_all_commitments(commitments_per_member, 1) = <<>>

(***************************************************************************)
(* C31. Frame of publish and evaluate: a publish_view of caller at height  *)
(* changes at most the commitment at (caller, height) and the reply        *)
(* collection at (caller, height); an evaluate_view for (evaluated member, *)
(* height) changes at most the reply list there.  The commitments of other *)
(* members and at other heights, the replies at other coordinates, the     *)
(* whitelist, the clock and the timeout stay as they are.                  *)
(***************************************************************************)
C31_FramePublishEvaluate ==
    [][/\ \A caller \in Accounts, height \in Heights, view \in Views,
             rolling_hash \in RollingHashes :
             (/\ last'.op = "publish_view"
              /\ last'.caller = caller
              /\ PublishView(caller, height, view, rolling_hash))
                 => /\ UNCHANGED <<whitelist, current_height, timeout>>
                    /\ DOMAIN commitments_per_member' = DOMAIN commitments_per_member
                    /\ DOMAIN replies_per_member' = DOMAIN replies_per_member
                    /\ \A m \in Accounts, h \in Heights :
                          <<m, h>> # <<caller, height>>
                             => /\ HasCommitment(m, h)' = HasCommitment(m, h)
                                /\ HasCommitment(m, h)
                                      => commitments_per_member'[m][h] = commitments_per_member[m][h]
                                /\ HasReplyCollection(m, h)' = HasReplyCollection(m, h)
                                /\ Replies(m, h)' = Replies(m, h)
       /\ \A caller \in Accounts, height \in Heights, evaluated_member \in Accounts,
             verdict \in Verdicts :
             (/\ last'.op = "evaluate_view"
              /\ last'.caller = caller
              /\ EvaluateView(caller, height, evaluated_member, verdict))
                 => /\ UNCHANGED <<commitments_per_member, whitelist,
                                   current_height, timeout>>
                    /\ DOMAIN replies_per_member' = DOMAIN replies_per_member
                    /\ \A m \in Accounts, h \in Heights :
                          <<m, h>> # <<evaluated_member, height>>
                             => /\ HasReplyCollection(m, h)' = HasReplyCollection(m, h)
                                /\ Replies(m, h)' = Replies(m, h)
      ]_vars

\* a round of a member at height 2 has timed out while the member holds a
\* commitment at height 1 and its peer a commitment and a reply collection
C31_Witness ==
    /\ last.op = "publish_view"
    /\ last.outcome = "TimedOut"
    /\ HasCommitment(last.caller, 1)
    /\ ~HasReplyCollection(last.caller, 2)
    /\ \E peer \in Accounts \ {last.caller} :
          /\ HasCommitment(peer, 1)
          /\ \E h \in Heights : HasReplyCollection(peer, h)

(***************************************************************************)
(* C32. Replies are bound to the coordinate, not to a view.  A             *)
(* publish_view that ends rejected leaves the whole reply map, and with it *)
(* the replies of its coordinate, exactly as it was.  A publish_view of m  *)
(* at h that starts a round while the replies in place are as many as the  *)
(* quorum threshold and hold a "NOK" is rejected in the call, with a       *)
(* ViewConflict for its own view and rolling hash, changes no reply, and   *)
(* leaves the contract in a state where the same holds again for every     *)
(* novel view: the replies still reach the threshold, still hold the       *)
(* "NOK", and m may start a round at h for any view that was novel.        *)
(***************************************************************************)
C32_RepliesBoundToCoordinate ==
    [][/\ \A caller \in Accounts :
             (/\ last'.op = "publish_view"
              /\ last'.outcome = "Rejected"
              /\ last'.caller = caller)
                => /\ replies_per_member' = replies_per_member
                   /\ \E height \in Heights :
                         /\ HasNOK(caller, height)
                         /\ Replies(caller, height)' = Replies(caller, height)
       /\ \A caller \in Accounts, height \in Heights, view \in Views,
             rolling_hash \in RollingHashes :
             (/\ last'.op = "publish_view"
              /\ last'.caller = caller
              /\ StartsRound(caller, height, view)
              /\ HasNOK(caller, height)
              /\ QuorumReached(caller, height)
              /\ PublishView(caller, height, view, rolling_hash))
                 => /\ last'.outcome = "Rejected"
                    /\ last'.events =
                          <<[event |-> "ViewApprovalRequest", height |-> height,
                             member |-> caller, view |-> view],
                            [event |-> "ViewConflict", height |-> height,
                             member |-> caller, view |-> view,
                             rolling_hash |-> rolling_hash]>>
                    /\ Replies(caller, height)' = Replies(caller, height)
                    /\ replies_per_member' = replies_per_member
                    /\ HasNOK(caller, height)'
                    /\ QuorumReached(caller, height)'
                    /\ \A other \in Views :
                          StartsRound(caller, height, other)
                             => StartsRound(caller, height, other)'
      ]_vars

\* a publish_view of "View2" was rejected in the call on the one reply
\* "NOK" that was in place for the coordinate
C32_Witness ==
    /\ last.op = "publish_view"
    /\ last.outcome = "Rejected"
    /\ Len(whitelist) = 2
    /\ Replies(last.caller, 1) = <<StrNOK>>
    /\ Len(last.events) = 2
    /\ last.events[2].event = "ViewConflict"
    /\ last.events[2].view = View2

(***************************************************************************)
(* C33. Cross-member agreement: two members that both hold a commitment at *)
(* a height hold the same view there.                                      *)
(***************************************************************************)
C33_CrossMemberAgreement ==
    \A m1, m2 \in Accounts, h \in Heights :
        (/\ IsMember(m1)
         /\ IsMember(m2)
         /\ HasCommitment(m1, h)
         /\ HasCommitment(m2, h))
            => commitments_per_member[m1][h][1] = commitments_per_member[m2][h][1]

\* two members hold a commitment at height 1, one of them committed on a
\* reply of its peer
C33_Witness ==
    /\ Len(whitelist) = 2
    /\ HasCommitment(0, 1)
    /\ HasCommitment(1, 1)
    /\ commitments_per_member[0][1][1] = View2
    /\ \E m \in {0, 1} : Len(Replies(m, 1)) = 1

(***************************************************************************)
(* C34. The owner administers membership: in the main revision an          *)
(* add_member of an account that is not a member adds it exactly when the  *)
(* caller is the owner, the account that constructed the contract, and a   *)
(* remove_member of a member removes it exactly when the caller is the     *)
(* owner, whichever account has constructed the contract.                  *)
(***************************************************************************)
C34_OwnerAdministers ==
    [][\A caller \in Accounts, member \in Accounts :
          /\ (/\ last'.op = "add_member"
              /\ last'.caller = caller
              /\ ~IsMember(member)
              /\ MainAddMember(caller, member))
                => (IsMember(member)' <=> caller = owner)
          /\ (/\ last'.op = "remove_member"
              /\ last'.caller = caller
              /\ IsMember(member)
              /\ MainRemoveMember(caller, member))
                => (~IsMember(member)' <=> caller = owner)
      ]_vars

(***************************************************************************)
(* C35. No early timeout from arithmetic: whatever u32 values the timeout  *)
(* and the clock have, the evaluation of the deadline                      *)
(* initial_height + timeout by a member's approval round does not trap,    *)
(* and the round ends TimedOut only when the clock has advanced, since     *)
(* the round started, by at least the timeout in force.  The clock does    *)
(* not advance while the call runs.                                        *)
(***************************************************************************)
C35_NoEarlyTimeout ==
    [][\A caller \in Accounts, height \in Heights, view \in Views,
          rolling_hash \in RollingHashes :
          (/\ last'.op = "publish_view"
           /\ last'.caller = caller
           /\ PublishView(caller, height, view, rolling_hash))
              => /\ last'.outcome # "Trapped"
                 /\ last'.outcome = "TimedOut" => timeout = 0
      ]_vars

====
